---- MODULE Spec2Model ----
(***************************************************************************)
(* Model of nautilus_core/network/src/socket.rs: the SocketClient facade,  *)
(* the SocketClientInner session it hands to the controller task, the      *)
(* reader and heartbeat tasks, and the shutdown primitive.                 *)
(*                                                                         *)
(* Every await point of the source is a step boundary; code between two    *)
(* await points of one task that touches only task-local data is one step. *)
(* A deadline (tokio::time::timeout) is an action of its own that drops    *)
(* the future it wraps. Connections are numbered 1, 2, ... in the order    *)
(* they are opened; connection c owns the writer, the reader task and the  *)
(* heartbeat task created with it.                                         *)
(***************************************************************************)
EXTENDS Integers, FiniteSets, Sequences, TLC

\* ------------------------------------------------------------------ bounds
MaxConn == 2
MaxTries == 2
MaxRetry == 2
\* Inbound bytes are 0..MaxByte; streams have at most MaxStream bytes and
\* suffixes 1..MaxSuffix bytes.
MaxByte == 1
MaxStream == 4
MaxSuffix == 2
\* Concurrent send_bytes calls on one connection, and writes on its wire.
MaxSenders == 2
MaxWire == 4

\* ------------------------------------------------------- program constants
CONNECTION_ACTIVE == 0
CONNECTION_RECONNECTING == 1
CONNECTION_CLOSED == 2

Conns == 1..MaxConn

\* Option<u64>: None, or Some(n).
NoneTries == [some |-> FALSE, val |-> 0]
SomeTries(n) == [some |-> TRUE, val |-> n]

VARIABLES
    connection_state,        \* Arc<AtomicU8> shared by facade, controller, heartbeats
    disconnect_mode,         \* Arc<AtomicBool> set by close()
    heartbeat,               \* config.heartbeat.is_some()
    max_reconnection_tries,  \* config.max_reconnection_tries
    nconn,                   \* connections opened so far
    read_task,               \* per connection: state of its reader task
    hb_task,                 \* per connection: state of its heartbeat task
    wshut,                   \* per connection: writer.shutdown() has run
    wlock,                   \* per connection: holder of the writer mutex
    inner_writer,            \* SocketClientInner.writer
    inner_read_task,         \* SocketClientInner.read_task
    inner_heartbeat_task,    \* SocketClientInner.heartbeat_task (0 = None)
    reconnection_lock,       \* SocketClientInner.reconnection_lock is held
    facade_writer,           \* SocketClient.writer
    ctrl_pc,                 \* position of the controller task
    ctrl_disconnect,         \* the controller's local `disconnect`
    ctrl_call,               \* which branch of the controller called shutdown
    sd_hb,                   \* heartbeat handle moved into shutdown (0 = None)
    retry_counter,           \* the controller's local `retry_counter`
    n_post_reconnection,     \* calls of the post_reconnection callback
    n_post_disconnection,    \* calls of the post_disconnection callback
    send_pc,                 \* position of a send_bytes call
    send_result,             \* result of the last send_bytes call
    send_wrote,              \* the current/last send_bytes call wrote bytes
    send_start,              \* what the current/last send_bytes call found at entry
    close_pc,                \* position of a close() call
    connect_pc,              \* position of the SocketClient::connect call
    n_post_connection,       \* calls of the post_connection callback
    fr_pc,                   \* position of the reader whose framing is followed
    fr_suffix,               \* config.suffix
    fr_handler_fails,        \* the handler may return an error
    fr_stream,               \* the bytes the peer sends on the connection
    fr_pos,                  \* how many of them read_buf has returned
    fr_buf,                  \* the reader's local `buf`
    fr_calls,                \* arguments of the handler calls, in order
    wr_pc,                   \* per caller: position of its send_bytes call
    wr_hb,                   \* position of the connection's heartbeat task
    wr_holder,               \* holder of the connection's writer mutex
    wr_shut,                 \* the connection's writer is shut down or broken
    wr_wire                  \* what has been written to the connection, in order

vars == <<connection_state, disconnect_mode, heartbeat, max_reconnection_tries,
          nconn, read_task, hb_task, wshut, wlock, inner_writer, inner_read_task,
          inner_heartbeat_task, reconnection_lock, facade_writer, ctrl_pc,
          ctrl_disconnect, ctrl_call, sd_hb, retry_counter, n_post_reconnection,
          n_post_disconnection, send_pc, send_result, send_wrote, send_start,
          close_pc, connect_pc, n_post_connection, fr_pc, fr_suffix,
          fr_handler_fails, fr_stream, fr_pos, fr_buf, fr_calls, wr_pc, wr_hb,
          wr_holder, wr_shut, wr_wire>>

config_vars == <<heartbeat, max_reconnection_tries>>
connect_vars == <<connect_pc, n_post_connection>>
\* What no step of a constructed client changes (the framing of one reader is
\* followed by actions of its own).
frame_vars == <<fr_pc, fr_suffix, fr_handler_fails, fr_stream, fr_pos, fr_buf, fr_calls>>
wire_vars == <<wr_pc, wr_hb, wr_holder, wr_shut, wr_wire>>
fixed_vars == <<config_vars, connect_vars, frame_vars, wire_vars>>
conn_vars == <<nconn, read_task, hb_task, wshut, wlock>>
inner_vars == <<inner_writer, inner_read_task, inner_heartbeat_task, reconnection_lock>>
ctrl_vars == <<ctrl_pc, ctrl_disconnect, ctrl_call, sd_hb, retry_counter,
               n_post_reconnection, n_post_disconnection>>
send_vars == <<send_pc, send_result, send_wrote, send_start>>

\* ------------------------------------------------------------- task states
\* A reader is "running" at read_buf, "handler" inside the handler call,
\* "handler_failed" after the call returned an error, "handler_ab" when abort()
\* reached it during the synchronous handler call (it stops at its next
\* await). A heartbeat is at its "sleep" or at the writer "lock".
TaskLive(s) == s \in {"running", "handler", "handler_failed", "handler_ab", "sleep", "lock"}

\* JoinHandle::is_finished
IsFinished(s) == ~TaskLive(s)

\* SocketClientInner::is_alive
is_alive == ~IsFinished(read_task[inner_read_task])

\* Variant of is_active that does not read the disconnect flag.
is_active_StateOnly == connection_state = CONNECTION_ACTIVE

\* SocketClient::is_active
is_active == connection_state = CONNECTION_ACTIVE /\ ~disconnect_mode

\* SocketClient::is_closed
is_closed == connection_state = CONNECTION_CLOSED

\* SocketClient::is_reconnecting
is_reconnecting == connection_state = CONNECTION_RECONNECTING

\* SocketClient::is_disconnecting
is_disconnecting == disconnect_mode

\* JoinHandle::abort on a task that is not finished
Abort(tasks, c) ==
    IF c = 0 \/ ~TaskLive(tasks[c]) THEN tasks
    ELSE IF tasks[c] \in {"handler", "handler_failed", "handler_ab"}
         THEN [tasks EXCEPT ![c] = "handler_ab"]
         ELSE [tasks EXCEPT ![c] = "aborted"]

\* ------------------------------------------------------------------- Init
\* SocketClient::connect after a successful SocketClientInner::connect_url:
\* connection 1 is open, its reader (and heartbeat, when configured) runs,
\* the facade holds a clone of the writer handle, the controller is spawned.
Connected ==
    /\ connection_state = CONNECTION_ACTIVE
    /\ disconnect_mode = FALSE
    /\ heartbeat \in BOOLEAN
    /\ max_reconnection_tries \in {NoneTries} \cup {SomeTries(n) : n \in 0..MaxTries}
    /\ nconn = 1
    /\ read_task = [c \in Conns |-> IF c = 1 THEN "running" ELSE "none"]
    /\ hb_task = [c \in Conns |-> IF c = 1 /\ heartbeat THEN "sleep" ELSE "none"]
    /\ wshut = [c \in Conns |-> FALSE]
    /\ wlock = [c \in Conns |-> "free"]
    /\ inner_writer = 1
    /\ inner_read_task = 1
    /\ inner_heartbeat_task = IF heartbeat THEN 1 ELSE 0
    /\ reconnection_lock = FALSE
    /\ facade_writer = 1
    /\ ctrl_pc = "tick"
    /\ ctrl_disconnect = FALSE
    /\ ctrl_call = "none"
    /\ sd_hb = 0
    /\ retry_counter = 0
    /\ n_post_reconnection = 0
    /\ n_post_disconnection = 0
    /\ send_pc = "idle"
    /\ send_result = "none"
    /\ send_wrote = FALSE
    /\ send_start = [closed |-> FALSE, disconnect |-> FALSE]
    /\ close_pc = "idle"
    /\ connect_pc = "done"
    /\ n_post_connection = 1

\* No reader's framing is followed.
FramingOff ==
    /\ fr_pc = "off"
    /\ fr_suffix = <<>>
    /\ fr_handler_fails = FALSE
    /\ fr_stream = <<>>
    /\ fr_pos = 0
    /\ fr_buf = <<>>
    /\ fr_calls = <<>>

\* No connection's wire is followed.
WireOff ==
    /\ wr_pc = <<>>
    /\ wr_hb = "off"
    /\ wr_holder = 0
    /\ wr_shut = FALSE
    /\ wr_wire = <<>>

Init == Connected /\ FramingOff /\ WireOff

\* ------------------------------------------------------- controller task
\* Top of the loop: the tick sleep ends and the disconnect flag is loaded.
CtrlTick ==
    /\ ctrl_pc = "tick"
    /\ ctrl_disconnect' = disconnect_mode
    /\ ctrl_pc' = "match"
    /\ UNCHANGED <<connection_state, disconnect_mode, fixed_vars, conn_vars, inner_vars,
                   facade_writer, ctrl_call, sd_hb, retry_counter, n_post_reconnection,
                   n_post_disconnection, send_vars, close_pc>>

\* match (false, true): nothing to do.
CtrlNoop ==
    /\ ctrl_pc = "match"
    /\ ~ctrl_disconnect /\ is_alive
    /\ ctrl_pc' = "tick"
    /\ UNCHANGED <<connection_state, disconnect_mode, fixed_vars, conn_vars, inner_vars,
                   facade_writer, ctrl_disconnect, ctrl_call, sd_hb, retry_counter,
                   n_post_reconnection, n_post_disconnection, send_vars, close_pc>>

\* Entry of shutdown(inner.read_task.clone(), inner.heartbeat_task.take(),
\* inner.writer.clone()) from branch `call`.
EnterShutdown(call) ==
    /\ ctrl_call' = call
    /\ sd_hb' = inner_heartbeat_task
    /\ inner_heartbeat_task' = 0
    /\ ctrl_pc' = "sd_lock"

\* Variant of CtrlReconnect that does not wait for the reader to have finished.
CtrlReconnect_IgnoresAlive ==
    /\ ctrl_pc = "match"
    /\ ~ctrl_disconnect
    /\ ~reconnection_lock
    /\ reconnection_lock' = TRUE
    /\ connection_state' = CONNECTION_RECONNECTING
    /\ EnterShutdown("reconnect")
    /\ UNCHANGED <<disconnect_mode, fixed_vars, conn_vars, inner_writer, inner_read_task,
                   facade_writer, ctrl_disconnect, retry_counter, n_post_reconnection,
                   n_post_disconnection, send_vars, close_pc>>

\* match (false, false): reconnect() takes the reconnection mutex, stores
\* RECONNECTING and enters shutdown.
CtrlReconnect ==
    /\ ctrl_pc = "match"
    /\ ~ctrl_disconnect /\ ~is_alive
    /\ ~reconnection_lock
    /\ reconnection_lock' = TRUE
    /\ connection_state' = CONNECTION_RECONNECTING
    /\ EnterShutdown("reconnect")
    /\ UNCHANGED <<disconnect_mode, fixed_vars, conn_vars, inner_writer, inner_read_task,
                   facade_writer, ctrl_disconnect, retry_counter, n_post_reconnection,
                   n_post_disconnection, send_vars, close_pc>>

\* match (true, true): shut the inner client down, then leave the loop.
CtrlClose ==
    /\ ctrl_pc = "match"
    /\ ctrl_disconnect /\ is_alive
    /\ EnterShutdown("close")
    /\ UNCHANGED <<connection_state, disconnect_mode, fixed_vars, conn_vars, inner_writer,
                   inner_read_task, reconnection_lock, facade_writer, ctrl_disconnect,
                   retry_counter, n_post_reconnection, n_post_disconnection, send_vars,
                   close_pc>>

\* Variant of CtrlCleanup that reconnects although the flag was observed.
CtrlCleanup_Reconnects ==
    /\ ctrl_pc = "match"
    /\ ctrl_disconnect /\ ~is_alive
    /\ ~reconnection_lock
    /\ reconnection_lock' = TRUE
    /\ connection_state' = CONNECTION_RECONNECTING
    /\ EnterShutdown("reconnect")
    /\ UNCHANGED <<disconnect_mode, fixed_vars, conn_vars, inner_writer, inner_read_task,
                   facade_writer, ctrl_disconnect, retry_counter, n_post_reconnection,
                   n_post_disconnection, send_vars, close_pc>>

\* match (true, false): shut the inner client down and loop again.
CtrlCleanup ==
    /\ ctrl_pc = "match"
    /\ ctrl_disconnect /\ ~is_alive
    /\ EnterShutdown("cleanup")
    /\ UNCHANGED <<connection_state, disconnect_mode, fixed_vars, conn_vars, inner_writer,
                   inner_read_task, reconnection_lock, facade_writer, ctrl_disconnect,
                   retry_counter, n_post_reconnection, n_post_disconnection, send_vars,
                   close_pc>>

\* Where the controller continues when shutdown returns.
AfterShutdown ==
    CASE ctrl_call = "reconnect" -> "rc_connect"
      [] ctrl_call = "close" -> "post_disc"
      [] OTHER -> "tick"

\* shutdown: writer.lock().await, writer.shutdown().await, drop(writer).
SdWriterShutdown ==
    /\ ctrl_pc = "sd_lock"
    /\ wlock[inner_writer] = "free"
    /\ wshut' = [wshut EXCEPT ![inner_writer] = TRUE]
    /\ ctrl_pc' = "sd_sleep"
    /\ UNCHANGED <<connection_state, disconnect_mode, fixed_vars, nconn, read_task, hb_task,
                   wlock, inner_vars, facade_writer, ctrl_disconnect, ctrl_call, sd_hb,
                   retry_counter, n_post_reconnection, n_post_disconnection, send_vars,
                   close_pc>>

\* Variant of SdAbort that aborts the reader only.
SdAbort_ReaderOnly ==
    /\ ctrl_pc = "sd_sleep"
    /\ read_task' = Abort(read_task, inner_read_task)
    /\ sd_hb' = 0
    /\ ctrl_pc' = AfterShutdown
    /\ UNCHANGED <<connection_state, disconnect_mode, fixed_vars, nconn, hb_task, wshut, wlock,
                   inner_vars, facade_writer, ctrl_disconnect, ctrl_call, retry_counter,
                   n_post_reconnection, n_post_disconnection, send_vars, close_pc>>

\* shutdown: after the 100 ms sleep, abort the tasks that are not finished.
SdAbort ==
    /\ ctrl_pc = "sd_sleep"
    /\ read_task' = Abort(read_task, inner_read_task)
    /\ hb_task' = Abort(hb_task, sd_hb)
    /\ sd_hb' = 0
    /\ ctrl_pc' = AfterShutdown
    /\ UNCHANGED <<connection_state, disconnect_mode, fixed_vars, nconn, wshut, wlock,
                   inner_vars, facade_writer, ctrl_disconnect, ctrl_call, retry_counter,
                   n_post_reconnection, n_post_disconnection, send_vars, close_pc>>

\* shutdown's own 5 s deadline: the wrapped future is dropped at the await it
\* is pending on; the heartbeat handle moved into it is dropped, not aborted.
SdTimeout ==
    /\ ctrl_pc \in {"sd_lock", "sd_sleep"}
    /\ sd_hb' = 0
    /\ ctrl_pc' = AfterShutdown
    /\ UNCHANGED <<connection_state, disconnect_mode, fixed_vars, conn_vars, inner_vars,
                   facade_writer, ctrl_disconnect, ctrl_call, retry_counter,
                   n_post_reconnection, n_post_disconnection, send_vars, close_pc>>

\* The retry counter is a u64; the model stops failing attempts at MaxRetry
\* when no maximum is configured.
MayFail == max_reconnection_tries.some \/ retry_counter < MaxRetry

\* Variant of RcTimeout that resets the state to ACTIVE when the deadline hits.
RcTimeout_StoresActive ==
    /\ ctrl_call = "reconnect"
    /\ ctrl_pc \in {"sd_lock", "sd_sleep", "rc_connect"}
    /\ MayFail
    /\ connection_state' = CONNECTION_ACTIVE
    /\ reconnection_lock' = FALSE
    /\ sd_hb' = 0
    /\ ctrl_pc' = "rc_err"
    /\ UNCHANGED <<disconnect_mode, fixed_vars, conn_vars, inner_writer,
                   inner_read_task, inner_heartbeat_task, facade_writer, ctrl_disconnect,
                   ctrl_call, retry_counter, n_post_reconnection, n_post_disconnection,
                   send_vars, close_pc>>

\* reconnect's deadline (reconnect_timeout_secs): the future is dropped at the
\* await it is pending on, which releases the reconnection mutex guard.
RcTimeout ==
    /\ ctrl_call = "reconnect"
    /\ ctrl_pc \in {"sd_lock", "sd_sleep", "rc_connect"}
    /\ MayFail
    /\ reconnection_lock' = FALSE
    /\ sd_hb' = 0
    /\ ctrl_pc' = "rc_err"
    /\ UNCHANGED <<connection_state, disconnect_mode, fixed_vars, conn_vars, inner_writer,
                   inner_read_task, inner_heartbeat_task, facade_writer, ctrl_disconnect,
                   ctrl_call, retry_counter, n_post_reconnection, n_post_disconnection,
                   send_vars, close_pc>>

\* Variant of RcConnectFail that returns the error with the reconnection mutex
\* still held.
RcConnectFail_KeepsLock ==
    /\ ctrl_pc = "rc_connect"
    /\ MayFail
    /\ ctrl_pc' = "rc_err"
    /\ UNCHANGED <<connection_state, disconnect_mode, fixed_vars, conn_vars, inner_vars,
                   facade_writer, ctrl_disconnect, ctrl_call, sd_hb, retry_counter,
                   n_post_reconnection, n_post_disconnection, send_vars, close_pc>>

\* reconnect: tls_connect_with_server fails; `?` returns the error.
RcConnectFail ==
    /\ ctrl_pc = "rc_connect"
    /\ MayFail
    /\ reconnection_lock' = FALSE
    /\ ctrl_pc' = "rc_err"
    /\ UNCHANGED <<connection_state, disconnect_mode, fixed_vars, conn_vars, inner_writer,
                   inner_read_task, inner_heartbeat_task, facade_writer, ctrl_disconnect,
                   ctrl_call, sd_hb, retry_counter, n_post_reconnection,
                   n_post_disconnection, send_vars, close_pc>>

\* reconnect: tls_connect_with_server succeeds; the new writer, reader task and
\* heartbeat task replace the fields of the inner client.
RcConnectOk ==
    /\ ctrl_pc = "rc_connect"
    /\ nconn < MaxConn
    /\ LET c == nconn + 1 IN
        /\ nconn' = c
        /\ inner_writer' = c
        /\ inner_read_task' = c
        /\ read_task' = [read_task EXCEPT ![c] = "running"]
        /\ inner_heartbeat_task' = IF heartbeat THEN c ELSE 0
        /\ hb_task' = IF heartbeat THEN [hb_task EXCEPT ![c] = "sleep"] ELSE hb_task
    /\ ctrl_pc' = "rc_unlock"
    /\ UNCHANGED <<connection_state, disconnect_mode, fixed_vars, wshut, wlock,
                   reconnection_lock, facade_writer, ctrl_disconnect, ctrl_call, sd_hb,
                   retry_counter, n_post_reconnection, n_post_disconnection, send_vars,
                   close_pc>>

\* reconnect: drop(state_guard).
RcDropGuard ==
    /\ ctrl_pc = "rc_unlock"
    /\ reconnection_lock' = FALSE
    /\ ctrl_pc' = "rc_active"
    /\ UNCHANGED <<connection_state, disconnect_mode, fixed_vars, conn_vars, inner_writer,
                   inner_read_task, inner_heartbeat_task, facade_writer, ctrl_disconnect,
                   ctrl_call, sd_hb, retry_counter, n_post_reconnection,
                   n_post_disconnection, send_vars, close_pc>>

\* Variant of RcStoreActive that returns Ok(()) without storing ACTIVE.
RcStoreActive_NoStore ==
    /\ ctrl_pc = "rc_active"
    /\ ctrl_pc' = "rc_ok"
    /\ UNCHANGED <<connection_state, disconnect_mode, fixed_vars, conn_vars, inner_vars,
                   facade_writer, ctrl_disconnect, ctrl_call, sd_hb, retry_counter,
                   n_post_reconnection, n_post_disconnection, send_vars, close_pc>>

\* reconnect: connection_state.store(CONNECTION_ACTIVE); Ok(()).
RcStoreActive ==
    /\ ctrl_pc = "rc_active"
    /\ connection_state' = CONNECTION_ACTIVE
    /\ ctrl_pc' = "rc_ok"
    /\ UNCHANGED <<disconnect_mode, fixed_vars, conn_vars, inner_vars, facade_writer,
                   ctrl_disconnect, ctrl_call, sd_hb, retry_counter, n_post_reconnection,
                   n_post_disconnection, send_vars, close_pc>>

\* Variant of CtrlReconnectOk that keeps the retry counter.
CtrlReconnectOk_NoReset ==
    /\ ctrl_pc = "rc_ok"
    /\ n_post_reconnection' = n_post_reconnection + 1
    /\ ctrl_pc' = "tick"
    /\ UNCHANGED <<connection_state, disconnect_mode, fixed_vars, conn_vars, inner_vars,
                   facade_writer, ctrl_disconnect, ctrl_call, sd_hb, retry_counter,
                   n_post_disconnection, send_vars, close_pc>>

\* Controller, Ok(()) arm: reset the retry counter, call post_reconnection.
CtrlReconnectOk ==
    /\ ctrl_pc = "rc_ok"
    /\ retry_counter' = 0
    /\ n_post_reconnection' = n_post_reconnection + 1
    /\ ctrl_pc' = "tick"
    /\ UNCHANGED <<connection_state, disconnect_mode, fixed_vars, conn_vars, inner_vars,
                   facade_writer, ctrl_disconnect, ctrl_call, sd_hb, n_post_disconnection,
                   send_vars, close_pc>>

\* Variant of CtrlReconnectErr that breaks on any failure, whatever the maximum.
CtrlReconnectErr_AlwaysBreak ==
    /\ ctrl_pc = "rc_err"
    /\ retry_counter' = retry_counter + 1
    /\ ctrl_pc' = "exit"
    /\ UNCHANGED <<connection_state, disconnect_mode, fixed_vars, conn_vars, inner_vars,
                   facade_writer, ctrl_disconnect, ctrl_call, sd_hb, n_post_reconnection,
                   n_post_disconnection, send_vars, close_pc>>

\* Controller, Err(e) arm: count the failure; break when the maximum is
\* reached, else sleep retry_interval and loop.
CtrlReconnectErr ==
    /\ ctrl_pc = "rc_err"
    /\ retry_counter' = retry_counter + 1
    /\ ctrl_pc' = IF max_reconnection_tries.some
                     /\ retry_counter + 1 >= max_reconnection_tries.val
                  THEN "exit" ELSE "tick"
    /\ UNCHANGED <<connection_state, disconnect_mode, fixed_vars, conn_vars, inner_vars,
                   facade_writer, ctrl_disconnect, ctrl_call, sd_hb, n_post_reconnection,
                   n_post_disconnection, send_vars, close_pc>>

\* Variant of CtrlPostDisconnection without the break.
CtrlPostDisconnection_NoBreak ==
    /\ ctrl_pc = "post_disc"
    /\ n_post_disconnection' = n_post_disconnection + 1
    /\ ctrl_pc' = "tick"
    /\ UNCHANGED <<connection_state, disconnect_mode, fixed_vars, conn_vars, inner_vars,
                   facade_writer, ctrl_disconnect, ctrl_call, sd_hb, retry_counter,
                   n_post_reconnection, send_vars, close_pc>>

\* Controller, (true, true) arm after shutdown: call post_disconnection; break.
CtrlPostDisconnection ==
    /\ ctrl_pc = "post_disc"
    /\ n_post_disconnection' = n_post_disconnection + 1
    /\ ctrl_pc' = "exit"
    /\ UNCHANGED <<connection_state, disconnect_mode, fixed_vars, conn_vars, inner_vars,
                   facade_writer, ctrl_disconnect, ctrl_call, sd_hb, retry_counter,
                   n_post_reconnection, send_vars, close_pc>>

\* Variant of CtrlStoreClosed that stores CLOSED and stays in the loop.
CtrlStoreClosed_InLoop ==
    /\ ctrl_pc = "exit"
    /\ connection_state' = CONNECTION_CLOSED
    /\ ctrl_pc' = "tick"
    /\ UNCHANGED <<disconnect_mode, fixed_vars, conn_vars, inner_vars, facade_writer,
                   ctrl_disconnect, ctrl_call, sd_hb, retry_counter, n_post_reconnection,
                   n_post_disconnection, send_vars, close_pc>>

\* After the loop: connection_state.store(CONNECTION_CLOSED).
CtrlStoreClosed ==
    /\ ctrl_pc = "exit"
    /\ connection_state' = CONNECTION_CLOSED
    /\ ctrl_pc' = "drop"
    /\ UNCHANGED <<disconnect_mode, fixed_vars, conn_vars, inner_vars, facade_writer,
                   ctrl_disconnect, ctrl_call, sd_hb, retry_counter, n_post_reconnection,
                   n_post_disconnection, send_vars, close_pc>>

\* Variant of DropInner that releases the handles without aborting the tasks.
DropInner_NoAbort(done) ==
    /\ UNCHANGED <<read_task, hb_task>>
    /\ inner_heartbeat_task' = 0
    /\ ctrl_pc' = done

\* Drop for SocketClientInner: abort the reader and the heartbeat the inner
\* client still holds.
DropInner(done) ==
    /\ read_task' = Abort(read_task, inner_read_task)
    /\ hb_task' = Abort(hb_task, inner_heartbeat_task)
    /\ inner_heartbeat_task' = 0
    /\ ctrl_pc' = done

\* The controller's future ends: `inner` goes out of scope.
CtrlDrop ==
    /\ ctrl_pc = "drop"
    /\ DropInner("done")
    /\ UNCHANGED <<connection_state, disconnect_mode, fixed_vars, nconn, wshut, wlock,
                   inner_writer, inner_read_task, reconnection_lock, facade_writer,
                   ctrl_disconnect, ctrl_call, sd_hb, retry_counter, n_post_reconnection,
                   n_post_disconnection, send_vars, close_pc>>

Controller ==
    \/ CtrlTick \/ CtrlNoop \/ CtrlReconnect \/ CtrlClose \/ CtrlCleanup
    \/ SdWriterShutdown \/ SdAbort \/ SdTimeout
    \/ RcTimeout \/ RcConnectFail \/ RcConnectOk \/ RcDropGuard \/ RcStoreActive
    \/ CtrlReconnectOk \/ CtrlReconnectErr \/ CtrlPostDisconnection
    \/ CtrlStoreClosed \/ CtrlDrop

\* -------------------------------------------------------------- reader task
\* spawn_read_task: read_buf returns Ok(0) or Err(e); the loop breaks and the
\* task finishes.
ReaderEnd(c) ==
    /\ read_task[c] = "running"
    /\ read_task' = [read_task EXCEPT ![c] = "finished"]
    /\ UNCHANGED <<connection_state, disconnect_mode, fixed_vars, nconn, hb_task, wshut,
                   wlock, inner_vars, facade_writer, ctrl_vars, send_vars, close_pc>>

\* spawn_read_task: read_buf returned bytes and a window equals the suffix;
\* the handler is called with the frame.
ReaderFrame(c) ==
    /\ read_task[c] = "running"
    /\ read_task' = [read_task EXCEPT ![c] = "handler"]
    /\ UNCHANGED <<connection_state, disconnect_mode, fixed_vars, nconn, hb_task, wshut,
                   wlock, inner_vars, facade_writer, ctrl_vars, send_vars, close_pc>>

\* The handler returns Ok; the scan goes on and ends at read_buf.
HandlerOk(c) ==
    /\ read_task[c] = "handler"
    /\ read_task' = [read_task EXCEPT ![c] = "running"]
    /\ UNCHANGED <<connection_state, disconnect_mode, fixed_vars, nconn, hb_task, wshut,
                   wlock, inner_vars, facade_writer, ctrl_vars, send_vars, close_pc>>

\* The handler returns Err: the error is logged.
HandlerErr(c) ==
    /\ read_task[c] = "handler"
    /\ read_task' = [read_task EXCEPT ![c] = "handler_failed"]
    /\ UNCHANGED <<connection_state, disconnect_mode, fixed_vars, nconn, hb_task, wshut,
                   wlock, inner_vars, facade_writer, ctrl_vars, send_vars, close_pc>>

\* Variant of ReaderResume in which `break` leaves the read loop too.
ReaderResume_Ends(c) ==
    /\ read_task[c] = "handler_failed"
    /\ read_task' = [read_task EXCEPT ![c] = "finished"]
    /\ UNCHANGED <<connection_state, disconnect_mode, fixed_vars, nconn, hb_task, wshut,
                   wlock, inner_vars, facade_writer, ctrl_vars, send_vars, close_pc>>

\* After a handler error `break` leaves the while loop only: the reader is
\* back at read_buf.
ReaderResume(c) ==
    /\ read_task[c] = "handler_failed"
    /\ read_task' = [read_task EXCEPT ![c] = "running"]
    /\ UNCHANGED <<connection_state, disconnect_mode, fixed_vars, nconn, hb_task, wshut,
                   wlock, inner_vars, facade_writer, ctrl_vars, send_vars, close_pc>>

\* An aborted reader leaves the handler call and is cancelled at its next
\* await.
ReaderCancelled(c) ==
    /\ read_task[c] = "handler_ab"
    /\ read_task' = [read_task EXCEPT ![c] = "aborted"]
    /\ UNCHANGED <<connection_state, disconnect_mode, fixed_vars, nconn, hb_task, wshut,
                   wlock, inner_vars, facade_writer, ctrl_vars, send_vars, close_pc>>

\* ----------------------------------------------------------- heartbeat task
\* spawn_heartbeat_task: the sleep ends, the state loaded is CONNECTION_ACTIVE;
\* the task goes on to writer.lock().await.
HbTickActive(c) ==
    /\ hb_task[c] = "sleep"
    /\ connection_state = CONNECTION_ACTIVE
    /\ hb_task' = [hb_task EXCEPT ![c] = "lock"]
    /\ UNCHANGED <<connection_state, disconnect_mode, fixed_vars, nconn, read_task, wshut,
                   wlock, inner_vars, facade_writer, ctrl_vars, send_vars, close_pc>>

\* spawn_heartbeat_task: the state loaded is CONNECTION_CLOSED; break.
HbTickClosed(c) ==
    /\ hb_task[c] = "sleep"
    /\ connection_state = CONNECTION_CLOSED
    /\ hb_task' = [hb_task EXCEPT ![c] = "finished"]
    /\ UNCHANGED <<connection_state, disconnect_mode, fixed_vars, nconn, read_task, wshut,
                   wlock, inner_vars, facade_writer, ctrl_vars, send_vars, close_pc>>

\* spawn_heartbeat_task: the writer mutex of the task's own writer is taken,
\* write_all(message) runs (its result is only logged), the guard is dropped.
HbWrite(c) ==
    /\ hb_task[c] = "lock"
    /\ wlock[c] = "free"
    /\ hb_task' = [hb_task EXCEPT ![c] = "sleep"]
    /\ UNCHANGED <<connection_state, disconnect_mode, fixed_vars, nconn, read_task, wshut,
                   wlock, inner_vars, facade_writer, ctrl_vars, send_vars, close_pc>>

\* ---------------------------------------------------- SocketClient::send_bytes
AtEntry == [closed |-> is_closed, disconnect |-> disconnect_mode]

\* is_closed() at entry: return NotConnected.
SendClosed ==
    /\ send_pc = "idle"
    /\ is_closed
    /\ send_start' = AtEntry
    /\ send_wrote' = FALSE
    /\ send_result' = "NotConnected"
    /\ UNCHANGED <<connection_state, disconnect_mode, fixed_vars, conn_vars, inner_vars,
                   facade_writer, ctrl_vars, send_pc, close_pc>>

\* Variant of SendBegin without the is_closed() test.
SendBegin_NoClosedCheck ==
    /\ send_pc = "idle"
    /\ send_start' = AtEntry
    /\ send_wrote' = FALSE
    /\ send_result' = "none"
    /\ send_pc' = "check"
    /\ UNCHANGED <<connection_state, disconnect_mode, fixed_vars, conn_vars, inner_vars,
                   facade_writer, ctrl_vars, close_pc>>

\* is_closed() at entry is false: go on to the is_active() check.
SendBegin ==
    /\ send_pc = "idle"
    /\ ~is_closed
    /\ send_start' = AtEntry
    /\ send_wrote' = FALSE
    /\ send_result' = "none"
    /\ send_pc' = "check"
    /\ UNCHANGED <<connection_state, disconnect_mode, fixed_vars, conn_vars, inner_vars,
                   facade_writer, ctrl_vars, close_pc>>

\* if !self.is_active(): enter the bounded wait, else go to the writer mutex.
SendCheckActive ==
    /\ send_pc = "check"
    /\ send_pc' = IF is_active THEN "lock" ELSE "wait"
    /\ UNCHANGED <<connection_state, disconnect_mode, fixed_vars, conn_vars, inner_vars,
                   facade_writer, ctrl_vars, send_result, send_wrote, send_start, close_pc>>

\* The 1 ms poll finds is_active(): the wait ends.
SendWaitActive ==
    /\ send_pc = "wait"
    /\ is_active
    /\ send_pc' = "lock"
    /\ UNCHANGED <<connection_state, disconnect_mode, fixed_vars, conn_vars, inner_vars,
                   facade_writer, ctrl_vars, send_result, send_wrote, send_start, close_pc>>

\* The 2 s deadline of the wait: return TimedOut.
SendWaitTimeout ==
    /\ send_pc = "wait"
    /\ ~is_active
    /\ send_pc' = "idle"
    /\ send_result' = "TimedOut"
    /\ UNCHANGED <<connection_state, disconnect_mode, fixed_vars, conn_vars, inner_vars,
                   facade_writer, ctrl_vars, send_wrote, send_start, close_pc>>

\* self.writer.lock().await
SendLock ==
    /\ send_pc = "lock"
    /\ wlock[facade_writer] = "free"
    /\ wlock' = [wlock EXCEPT ![facade_writer] = "send"]
    /\ send_pc' = "write_data"
    /\ UNCHANGED <<connection_state, disconnect_mode, fixed_vars, nconn, read_task, hb_task,
                   wshut, inner_vars, facade_writer, ctrl_vars, send_result, send_wrote,
                   send_start, close_pc>>

\* A write on writer w can succeed while the writer has not been shut down.
WriteCanSucceed(w) == ~wshut[w]

\* A write on writer w can fail once the writer has been shut down or the
\* peer has ended the connection.
WriteCanFail(w) == wshut[w] \/ read_task[w] \notin {"running", "handler", "handler_failed"}

\* writer.write_all(data).await succeeds.
SendWriteData ==
    /\ send_pc = "write_data"
    /\ WriteCanSucceed(facade_writer)
    /\ send_wrote' = TRUE
    /\ send_pc' = "write_suffix"
    /\ UNCHANGED <<connection_state, disconnect_mode, fixed_vars, conn_vars, inner_vars,
                   facade_writer, ctrl_vars, send_result, send_start, close_pc>>

\* writer.write_all(&self.suffix).await succeeds: Ok(()); the guard is dropped.
SendWriteSuffix ==
    /\ send_pc = "write_suffix"
    /\ WriteCanSucceed(facade_writer)
    /\ wlock' = [wlock EXCEPT ![facade_writer] = "free"]
    /\ send_pc' = "idle"
    /\ send_result' = "Ok"
    /\ UNCHANGED <<connection_state, disconnect_mode, fixed_vars, nconn, read_task, hb_task,
                   wshut, inner_vars, facade_writer, ctrl_vars, send_wrote, send_start,
                   close_pc>>

\* Either write_all fails: the error is returned; the guard is dropped.
SendWriteErr ==
    /\ send_pc \in {"write_data", "write_suffix"}
    /\ WriteCanFail(facade_writer)
    /\ wlock' = [wlock EXCEPT ![facade_writer] = "free"]
    /\ send_pc' = "idle"
    /\ send_result' = "Err"
    /\ UNCHANGED <<connection_state, disconnect_mode, fixed_vars, nconn, read_task, hb_task,
                   wshut, inner_vars, facade_writer, ctrl_vars, send_wrote, send_start,
                   close_pc>>

SendBytes ==
    \/ SendClosed \/ SendBegin \/ SendCheckActive \/ SendWaitActive \/ SendWaitTimeout
    \/ SendLock \/ SendWriteData \/ SendWriteSuffix \/ SendWriteErr

\* --------------------------------------------------------- SocketClient::close
\* JoinHandle::is_finished of the controller task
CtrlFinished == ctrl_pc \in {"done", "aborted"}

\* disconnect_mode.store(true); the bounded wait for is_closed() begins.
CloseStart ==
    /\ close_pc \in {"idle", "returned", "timedout"}
    /\ disconnect_mode' = TRUE
    /\ close_pc' = "wait"
    /\ UNCHANGED <<connection_state, fixed_vars, conn_vars, inner_vars, facade_writer,
                   ctrl_vars, send_vars>>

\* The 10 ms poll finds is_closed() and the controller task finished.
CloseFinished ==
    /\ close_pc = "wait"
    /\ is_closed
    /\ CtrlFinished
    /\ close_pc' = "returned"
    /\ UNCHANGED <<connection_state, disconnect_mode, fixed_vars, conn_vars, inner_vars,
                   facade_writer, ctrl_vars, send_vars>>

\* Variant of CloseAbort that returns without aborting the controller task.
CloseAbort_NoAbort ==
    /\ close_pc = "wait"
    /\ is_closed
    /\ ~CtrlFinished
    /\ close_pc' = "returned"
    /\ UNCHANGED <<connection_state, disconnect_mode, fixed_vars, conn_vars, inner_vars,
                   facade_writer, ctrl_vars, send_vars>>

\* The 10 ms poll finds is_closed() and the controller task not yet finished:
\* controller_task.abort() drops the controller's future and with it `inner`.
CloseAbort ==
    /\ close_pc = "wait"
    /\ is_closed
    /\ ~CtrlFinished
    /\ DropInner("aborted")
    /\ close_pc' = "returned"
    /\ UNCHANGED <<connection_state, disconnect_mode, fixed_vars, nconn, wshut, wlock,
                   inner_writer, inner_read_task, reconnection_lock, facade_writer,
                   ctrl_disconnect, ctrl_call, sd_hb, retry_counter, n_post_reconnection,
                   n_post_disconnection, send_vars>>

\* The controller is at an await that can outlast close()'s 5 s: the writer
\* mutex and transport shutdown inside shutdown (5 s deadline of its own,
\* started later), or the transport connect of a reconnect. Its other awaits
\* are sleeps of 10 ms, 100 ms and 1 s.
CtrlStalled == ctrl_pc \in {"sd_lock", "rc_connect"}

\* The controller has taken the (true, false) arm: the flag stays set and the
\* reader stays finished, so every later tick takes that arm again and the
\* loop is never left.
CtrlNeverCloses == ctrl_call = "cleanup"

\* Variant of CloseTimeout in which close() marks the client closed itself.
CloseTimeout_StoresClosed ==
    /\ close_pc = "wait"
    /\ ~is_closed
    /\ CtrlStalled \/ CtrlNeverCloses
    /\ connection_state' = CONNECTION_CLOSED
    /\ close_pc' = "timedout"
    /\ UNCHANGED <<disconnect_mode, fixed_vars, conn_vars, inner_vars,
                   facade_writer, ctrl_vars, send_vars>>

\* close()'s 5 s deadline: Err(_) is logged and close() returns.
CloseTimeout ==
    /\ close_pc = "wait"
    /\ ~is_closed
    /\ CtrlStalled \/ CtrlNeverCloses
    /\ close_pc' = "timedout"
    /\ UNCHANGED <<connection_state, disconnect_mode, fixed_vars, conn_vars, inner_vars,
                   facade_writer, ctrl_vars, send_vars>>

Close == CloseStart \/ CloseFinished \/ CloseAbort \/ CloseTimeout

Reader(c) ==
    ReaderEnd(c) \/ ReaderFrame(c) \/ HandlerOk(c) \/ HandlerErr(c) \/ ReaderResume(c)
        \/ ReaderCancelled(c)

Heartbeat(c) == HbTickActive(c) \/ HbTickClosed(c) \/ HbWrite(c)

Tasks == \E c \in Conns : Reader(c) \/ Heartbeat(c)

Next == Controller \/ Tasks \/ SendBytes \/ Close

Spec == Init /\ [][Next]_vars

\* ------------------------------------------------------ SocketClient::connect
\* SocketClient::connect has been called and awaits connect_url: nothing is
\* constructed yet, no task exists, the caller holds no client. The shared
\* cells that do not exist yet carry the values construction gives them.
ConnectInit ==
    /\ connect_pc = "open"
    /\ n_post_connection = 0
    /\ heartbeat \in BOOLEAN
    /\ max_reconnection_tries \in {NoneTries} \cup {SomeTries(n) : n \in 0..MaxTries}
    /\ connection_state = CONNECTION_ACTIVE
    /\ disconnect_mode = FALSE
    /\ nconn = 0
    /\ read_task = [c \in Conns |-> "none"]
    /\ hb_task = [c \in Conns |-> "none"]
    /\ wshut = [c \in Conns |-> FALSE]
    /\ wlock = [c \in Conns |-> "free"]
    /\ inner_writer = 0
    /\ inner_read_task = 0
    /\ inner_heartbeat_task = 0
    /\ reconnection_lock = FALSE
    /\ facade_writer = 0
    /\ ctrl_pc = "unspawned"
    /\ ctrl_disconnect = FALSE
    /\ ctrl_call = "none"
    /\ sd_hb = 0
    /\ retry_counter = 0
    /\ n_post_reconnection = 0
    /\ n_post_disconnection = 0
    /\ send_pc = "noclient"
    /\ send_result = "none"
    /\ send_wrote = FALSE
    /\ send_start = [closed |-> FALSE, disconnect |-> FALSE]
    /\ close_pc = "noclient"
    /\ FramingOff
    /\ WireOff

\* Variant of ConnectOpenFail that still invokes post_connection.
ConnectOpenFail_CallsBack ==
    /\ connect_pc = "open"
    /\ connect_pc' = "failed"
    /\ n_post_connection' = 1
    /\ UNCHANGED <<connection_state, disconnect_mode, config_vars, conn_vars, inner_vars,
                   facade_writer, ctrl_vars, send_vars, close_pc, frame_vars, wire_vars>>

\* connect_url: tls_connect_with_server fails; `?` returns the error from
\* connect_url and again from connect.
ConnectOpenFail ==
    /\ connect_pc = "open"
    /\ connect_pc' = "failed"
    /\ UNCHANGED <<connection_state, disconnect_mode, config_vars, conn_vars, inner_vars,
                   facade_writer, ctrl_vars, send_vars, close_pc, n_post_connection,
                   frame_vars, wire_vars>>

\* connect_url succeeds: connection 1 with its reader (and heartbeat) is
\* created, the controller is spawned, post_connection is called and the
\* facade is returned.
ConnectOpenOk ==
    /\ connect_pc = "open"
    /\ connect_pc' = "done"
    /\ n_post_connection' = 1
    /\ nconn' = 1
    /\ read_task' = [read_task EXCEPT ![1] = "running"]
    /\ hb_task' = [hb_task EXCEPT ![1] = IF heartbeat THEN "sleep" ELSE "none"]
    /\ inner_writer' = 1
    /\ inner_read_task' = 1
    /\ inner_heartbeat_task' = IF heartbeat THEN 1 ELSE 0
    /\ facade_writer' = 1
    /\ ctrl_pc' = "tick"
    /\ send_pc' = "idle"
    /\ close_pc' = "idle"
    /\ UNCHANGED <<connection_state, disconnect_mode, config_vars, wshut, wlock,
                   reconnection_lock, ctrl_disconnect, ctrl_call, sd_hb, retry_counter,
                   n_post_reconnection, n_post_disconnection, send_result, send_wrote,
                   send_start, frame_vars, wire_vars>>

Connect == ConnectOpenFail \/ ConnectOpenOk

ConnectNext == Connect \/ Next

\* The client from the call of SocketClient::connect on.
ConnectSpec == ConnectInit /\ [][ConnectNext]_vars

\* ------------------------------------------------- spawn_read_task: framing
Bytes == 0..MaxByte

SeqsUpTo(S, n) == UNION {[1..k -> S] : k \in 0..n}

\* buf.windows(n): the contiguous slices of n elements, in order of their
\* start (none when buf is shorter than n).
Windows(buf, n) == [i \in 1..(Len(buf) - n + 1) |-> SubSeq(buf, i, i + n - 1)]

\* Variant of Find that takes the last window equal to the suffix.
Find_Last(buf, suffix) ==
    LET w == Windows(buf, Len(suffix))
        hits == {i \in DOMAIN w : w[i] = suffix}
    IN IF hits = {} THEN 0 ELSE CHOOSE i \in hits : \A j \in hits : j <= i

\* buf.windows(suffix.len()).enumerate().find(|(_, pair)| pair.eq(&suffix)):
\* the start (counted from 1) of the first window equal to the suffix, 0 for
\* None.
Find(buf, suffix) ==
    LET w == Windows(buf, Len(suffix))
        hits == {i \in DOMAIN w : w[i] = suffix}
    IN IF hits = {} THEN 0 ELSE CHOOSE i \in hits : \A j \in hits : i <= j

\* buf.drain(0..i + suffix.len()).collect() then data.truncate(data.len() -
\* suffix.len()): the drained bytes without the suffix, and what buf keeps.
Drained(buf, suffix, i) ==
    LET data == SubSeq(buf, 1, i + Len(suffix) - 1)
    IN [data |-> SubSeq(data, 1, Len(data) - Len(suffix)),
        buf |-> SubSeq(buf, i + Len(suffix), Len(buf))]

\* Everything but the framing of the reader that is followed.
core_vars == <<connection_state, disconnect_mode, config_vars, connect_vars, conn_vars,
               inner_vars, facade_writer, ctrl_vars, send_vars, close_pc>>
client_vars == <<core_vars, wire_vars>>

\* The reader of a fresh connection, its buffer empty, awaiting read_buf; the
\* peer will send fr_stream. The client around it is the connected one.
FrameInit ==
    /\ heartbeat = FALSE
    /\ max_reconnection_tries = NoneTries
    /\ Connected
    /\ WireOff
    /\ fr_pc = "read"
    /\ fr_suffix \in SeqsUpTo(Bytes, MaxSuffix) \ {<<>>}
    /\ fr_handler_fails \in BOOLEAN
    /\ fr_stream \in SeqsUpTo(Bytes, MaxStream)
    /\ fr_pos = 0
    /\ fr_buf = <<>>
    /\ fr_calls = <<>>

\* read_buf returns Ok(k), k >= 1: the next k bytes are appended to buf.
FrRead ==
    /\ fr_pc = "read"
    /\ \E k \in 1..(Len(fr_stream) - fr_pos) :
        /\ fr_buf' = fr_buf \o SubSeq(fr_stream, fr_pos + 1, fr_pos + k)
        /\ fr_pos' = fr_pos + k
    /\ fr_pc' = "scan"
    /\ UNCHANGED <<fr_suffix, fr_handler_fails, fr_stream, fr_calls, client_vars>>

\* read_buf returns Ok(0) at the end of the stream: break.
FrEof ==
    /\ fr_pc = "read"
    /\ fr_pos = Len(fr_stream)
    /\ fr_pc' = "done"
    /\ UNCHANGED <<fr_suffix, fr_handler_fails, fr_stream, fr_pos, fr_buf, fr_calls, client_vars>>

\* `while let Some((i, _))`: a window equals the suffix; the frame is drained
\* and the handler, called with it, returns Ok.
FrDeliverOk ==
    /\ fr_pc = "scan"
    /\ Find(fr_buf, fr_suffix) # 0
    /\ LET d == Drained(fr_buf, fr_suffix, Find(fr_buf, fr_suffix))
       IN /\ fr_calls' = Append(fr_calls, d.data)
          /\ fr_buf' = d.buf
    /\ UNCHANGED <<fr_pc, fr_suffix, fr_handler_fails, fr_stream, fr_pos, client_vars>>

\* As FrDeliverOk, but the handler returns Err: the error is logged and
\* `break` leaves the while loop for the next read_buf.
FrDeliverErr ==
    /\ fr_pc = "scan"
    /\ fr_handler_fails
    /\ Find(fr_buf, fr_suffix) # 0
    /\ LET d == Drained(fr_buf, fr_suffix, Find(fr_buf, fr_suffix))
       IN /\ fr_calls' = Append(fr_calls, d.data)
          /\ fr_buf' = d.buf
    /\ fr_pc' = "read"
    /\ UNCHANGED <<fr_suffix, fr_handler_fails, fr_stream, fr_pos, client_vars>>

\* `while let` finds None: back to read_buf.
FrScanEnd ==
    /\ fr_pc = "scan"
    /\ Find(fr_buf, fr_suffix) = 0
    /\ fr_pc' = "read"
    /\ UNCHANGED <<fr_suffix, fr_handler_fails, fr_stream, fr_pos, fr_buf, fr_calls, client_vars>>

FrameNext == FrRead \/ FrEof \/ FrDeliverOk \/ FrDeliverErr \/ FrScanEnd

\* One reader task from its spawn to its end, on every stream, suffix and
\* chunking within the bounds.
FrameSpec == FrameInit /\ [][FrameNext]_vars

\* ------------------------------------------- one connection's writer and wire
Senders == 1..MaxSenders

\* Holders of the writer mutex other than a send_bytes call.
HbHolder == MaxSenders + 1

Payload(s) == [kind |-> "payload", by |-> s]
Suffix(s) == [kind |-> "suffix", by |-> s]
HeartbeatMsg == [kind |-> "heartbeat", by |-> HbHolder]

\* One connection with its heartbeat asleep; MaxSenders callers share the
\* facade and have not called send_bytes yet.
WireInit ==
    /\ heartbeat = TRUE
    /\ max_reconnection_tries = NoneTries
    /\ Connected
    /\ FramingOff
    /\ wr_pc = [s \in Senders |-> "idle"]
    /\ wr_hb = "sleep"
    /\ wr_holder = 0
    /\ wr_shut = FALSE
    /\ wr_wire = <<>>

\* send_bytes has passed its is_closed and is_active tests and awaits
\* self.writer.lock().
WrSendBegin(s) ==
    /\ wr_pc[s] \in {"idle", "ok", "err"}
    /\ wr_pc' = [wr_pc EXCEPT ![s] = "lock"]
    /\ UNCHANGED <<wr_hb, wr_holder, wr_shut, wr_wire, core_vars, frame_vars>>

\* self.writer.lock().await returns the guard.
WrSendLock(s) ==
    /\ wr_pc[s] = "lock"
    /\ wr_holder = 0
    /\ wr_holder' = s
    /\ wr_pc' = [wr_pc EXCEPT ![s] = "write_data"]
    /\ UNCHANGED <<wr_hb, wr_shut, wr_wire, core_vars, frame_vars>>

\* Variant of WrSendData that gives the mutex up after the payload.
WrSendData_Unlocks(s) ==
    /\ wr_pc[s] = "write_data"
    /\ ~wr_shut
    /\ Len(wr_wire) < MaxWire
    /\ wr_wire' = Append(wr_wire, Payload(s))
    /\ wr_holder' = 0
    /\ wr_pc' = [wr_pc EXCEPT ![s] = "write_suffix"]
    /\ UNCHANGED <<wr_hb, wr_shut, core_vars, frame_vars>>

\* writer.write_all(data).await returns Ok.
WrSendData(s) ==
    /\ wr_pc[s] = "write_data"
    /\ ~wr_shut
    /\ Len(wr_wire) < MaxWire
    /\ wr_wire' = Append(wr_wire, Payload(s))
    /\ wr_pc' = [wr_pc EXCEPT ![s] = "write_suffix"]
    /\ UNCHANGED <<wr_hb, wr_holder, wr_shut, core_vars, frame_vars>>

\* writer.write_all(&self.suffix).await returns Ok; send_bytes returns it and
\* the guard is dropped.
WrSendSuffix(s) ==
    /\ wr_pc[s] = "write_suffix"
    /\ ~wr_shut
    /\ Len(wr_wire) < MaxWire
    /\ wr_wire' = Append(wr_wire, Suffix(s))
    /\ wr_holder' = 0
    /\ wr_pc' = [wr_pc EXCEPT ![s] = "ok"]
    /\ UNCHANGED <<wr_hb, wr_shut, core_vars, frame_vars>>

\* Either write_all returns Err (the writer was shut down or the transport
\* fails, after which every write on it fails); send_bytes returns the error
\* and the guard is dropped.
WrSendErr(s) ==
    /\ wr_pc[s] \in {"write_data", "write_suffix"}
    /\ wr_shut' = TRUE
    /\ wr_holder' = 0
    /\ wr_pc' = [wr_pc EXCEPT ![s] = "err"]
    /\ UNCHANGED <<wr_hb, wr_wire, core_vars, frame_vars>>

\* The heartbeat's sleep ends with the state ACTIVE: writer.lock().await.
WrHbTick ==
    /\ wr_hb = "sleep"
    /\ wr_hb' = "lock"
    /\ UNCHANGED <<wr_pc, wr_holder, wr_shut, wr_wire, core_vars, frame_vars>>

\* The heartbeat gets the guard.
WrHbLock ==
    /\ wr_hb = "lock"
    /\ wr_holder = 0
    /\ wr_holder' = HbHolder
    /\ wr_hb' = "write"
    /\ UNCHANGED <<wr_pc, wr_shut, wr_wire, core_vars, frame_vars>>

\* guard.write_all(&message).await returns Ok: message is the heartbeat
\* payload extended by the suffix; the guard is dropped.
WrHbWriteOk ==
    /\ wr_hb = "write"
    /\ ~wr_shut
    /\ Len(wr_wire) < MaxWire
    /\ wr_wire' = Append(wr_wire, HeartbeatMsg)
    /\ wr_holder' = 0
    /\ wr_hb' = "sleep"
    /\ UNCHANGED <<wr_pc, wr_shut, core_vars, frame_vars>>

\* guard.write_all(&message).await returns Err, which is logged.
WrHbWriteErr ==
    /\ wr_hb = "write"
    /\ wr_shut' = TRUE
    /\ wr_holder' = 0
    /\ wr_hb' = "sleep"
    /\ UNCHANGED <<wr_pc, wr_wire, core_vars, frame_vars>>

\* shutdown: writer.lock().await, writer.shutdown().await, drop(writer).
WrShutdown ==
    /\ ~wr_shut
    /\ wr_holder = 0
    /\ wr_shut' = TRUE
    /\ UNCHANGED <<wr_pc, wr_hb, wr_holder, wr_wire, core_vars, frame_vars>>

\* task.abort() on the heartbeat, by shutdown after it shut the writer down or
\* by Drop, which shuts nothing down; the task is dropped at its await, and
\* with it a guard it holds.
WrHbAbort ==
    /\ wr_hb \in {"sleep", "lock", "write"}
    /\ wr_hb' = "aborted"
    /\ wr_holder' = IF wr_holder = HbHolder THEN 0 ELSE wr_holder
    /\ UNCHANGED <<wr_pc, wr_shut, wr_wire, core_vars, frame_vars>>

WireNext ==
    \/ \E s \in Senders :
          WrSendBegin(s) \/ WrSendLock(s) \/ WrSendData(s) \/ WrSendSuffix(s) \/ WrSendErr(s)
    \/ WrHbTick \/ WrHbLock \/ WrHbWriteOk \/ WrHbWriteErr
    \/ WrShutdown \/ WrHbAbort

\* The writes of concurrent send_bytes calls, the heartbeat and shutdown on
\* one connection.
WireSpec == WireInit /\ [][WireNext]_vars

\* The controller task is polled whenever it can take a step and every timer
\* fires: the controller (its deadlines included) is weakly fair. Nothing is
\* assumed of the peer, of the readers, of the heartbeats or of the callers.
FairSpec == Spec /\ WF_vars(Controller)

\* ================================================================== claims

\* C1: whenever the connection state is ACTIVE, the writer handle the facade
\* uses in send_bytes is the inner session's current writer (the one the
\* current heartbeat task uses), never the writer of a connection that
\* reconnect() has shut down.
C1_FacadeWriterIsCurrent ==
    connection_state = CONNECTION_ACTIVE => facade_writer = inner_writer

\* C2: once close() has set the disconnect flag, the connection state
\* eventually becomes CLOSED, whatever the controller observes at its ticks.
C2_CloseLeadsToClosed == disconnect_mode ~> is_closed

\* C3 as stated: when close() has returned (by either path) in a run where
\* the controller observed (disconnect = true, alive = true), is_closed() is
\* true and the controller task has finished.
C3_ClosedWhenCloseReturns ==
    (close_pc \in {"returned", "timedout"} /\ ctrl_call = "close")
        => (is_closed /\ CtrlFinished)

\* C3, amended: while the disconnect flag is set and the reader is alive the
\* controller comes to observe (true, true) unless the peer ends the
\* connection first; having observed it, the controller shuts the session
\* down, stores CLOSED and finishes; and when close() returns before its 5 s
\* deadline, is_closed() is true and the controller task has finished.
C3_CloseWithLiveReader ==
    /\ (disconnect_mode /\ is_alive)
          ~> (ctrl_call = "close" \/ read_task[inner_read_task] = "finished")
    /\ (ctrl_call = "close") ~> (is_closed /\ CtrlFinished)
    /\ [](close_pc = "returned" => (is_closed /\ CtrlFinished))

\* C3 witness: close() has returned before its deadline after the controller
\* took the (true, true) arm.
C3_Witness ==
    close_pc = "returned" /\ ctrl_call = "close" /\ n_post_disconnection = 1

AllowedTransitions ==
    { <<CONNECTION_ACTIVE, CONNECTION_RECONNECTING>>,
      <<CONNECTION_RECONNECTING, CONNECTION_ACTIVE>>,
      <<CONNECTION_ACTIVE, CONNECTION_CLOSED>>,
      <<CONNECTION_RECONNECTING, CONNECTION_CLOSED>> }

\* C4: every change of the connection state is one of ACTIVE->RECONNECTING,
\* RECONNECTING->ACTIVE, ACTIVE->CLOSED, RECONNECTING->CLOSED; in particular
\* no step leaves CLOSED.
C4_OnlyAllowedTransitions ==
    [][connection_state' # connection_state
          => <<connection_state, connection_state'>> \in AllowedTransitions]_vars

\* C4 witness: CLOSED has been reached after a round trip through
\* RECONNECTING and back to ACTIVE, with a send and a close attempted since.
C4_Witness ==
    is_closed /\ n_post_reconnection >= 1 /\ send_result # "none" /\ close_pc # "idle"

\* C5: the state is CLOSED only if close() set the disconnect flag or a
\* maximum is configured and the consecutive failed attempts reached it.
C5_ClosedOnlyByCloseOrCap ==
    is_closed =>
        \/ disconnect_mode
        \/ (max_reconnection_tries.some /\ retry_counter >= max_reconnection_tries.val)

\* C5 witness: the peer ended the connection, close() was never called, and
\* the state is CLOSED because the cap was reached.
C5_Witness ==
    is_closed /\ ~disconnect_mode /\ read_task[1] = "finished"

\* C6: a dead reader seen in state ACTIVE with the disconnect flag unset leads
\* to state RECONNECTING with a reconnect in progress (unless close() sets the
\* flag first); a successful connect installs a new live reader task (and a
\* new heartbeat task when one is configured) and leads to state ACTIVE.
C6_DeadReaderLeadsToReconnect ==
    /\ (connection_state = CONNECTION_ACTIVE /\ ~is_alive /\ ~disconnect_mode)
          ~> ((is_reconnecting /\ ctrl_call = "reconnect") \/ disconnect_mode)
    /\ [][ctrl_pc # "rc_unlock" /\ ctrl_pc' = "rc_unlock"
            => /\ inner_read_task' # inner_read_task
               /\ read_task[inner_read_task'] = "none"
               /\ read_task'[inner_read_task'] = "running"
               /\ heartbeat => /\ inner_heartbeat_task' = inner_read_task'
                               /\ TaskLive(hb_task'[inner_heartbeat_task'])]_vars
    /\ (ctrl_pc = "rc_unlock") ~> (connection_state = CONNECTION_ACTIVE)

\* C6 witness: back in ACTIVE after a reconnect, with the new reader and the
\* new heartbeat alive.
C6_Witness ==
    /\ connection_state = CONNECTION_ACTIVE /\ n_post_reconnection = 1
    /\ inner_read_task = 2 /\ is_alive
    /\ heartbeat /\ TaskLive(hb_task[2])

\* C7: with max_reconnection_tries = N and no close() call, when the state
\* has become CLOSED the controller has made at most N reconnect attempts
\* since the last success, for every N >= 0.
C7_AtMostNAttempts ==
    (is_closed /\ ~disconnect_mode /\ max_reconnection_tries.some)
        => retry_counter <= max_reconnection_tries.val

\* C8: a send_bytes call that found the state CLOSED at entry has returned
\* NotConnected, wrote nothing and does not hold the writer mutex.
C8_SendWhenClosed ==
    send_start.closed =>
        /\ send_pc = "idle"
        /\ send_result = "NotConnected"
        /\ ~send_wrote
        /\ wlock[facade_writer] # "send"

\* C8 witness: a send was refused after the retry cap closed the client with
\* no close() call (the facade outlived the controller).
C8_Witness ==
    send_start.closed /\ send_result = "NotConnected" /\ ~disconnect_mode /\ CtrlFinished

\* C9: send_bytes never performs a write while the connection state is
\* RECONNECTING.
C9_NoWriteWhileReconnecting ==
    [][(SendWriteData \/ SendWriteSuffix) => ~is_reconnecting]_vars

\* C10: send_bytes goes on to the writer mutex only at a moment when
\* is_active() holds; a call that returns TimedOut has written nothing; and a
\* call that found the disconnect flag set at entry never reaches the writer,
\* never writes, and returns NotConnected or TimedOut.
C10_SendWaitsForActive ==
    /\ [][send_pc # "lock" /\ send_pc' = "lock" => is_active]_vars
    /\ [](send_result = "TimedOut" => ~send_wrote)
    /\ [](send_start.disconnect =>
            /\ send_pc \in {"idle", "check", "wait"}
            /\ ~send_wrote
            /\ send_result \in (IF send_pc = "idle" THEN {"NotConnected", "TimedOut"}
                                                     ELSE {"none"}))

\* C10 witness: a send that began after close() set the flag, while the state
\* was still ACTIVE, has timed out.
C10_Witness ==
    /\ send_start.disconnect /\ ~send_start.closed
    /\ send_result = "TimedOut" /\ connection_state = CONNECTION_ACTIVE

\* C11: a heartbeat task writes its message only while the connection state
\* is ACTIVE, never while it is RECONNECTING or CLOSED; a heartbeat that
\* observes CLOSED at a tick exits.
C11_HeartbeatWritesOnlyWhenActive ==
    [][/\ (\E c \in Conns : HbWrite(c)) => connection_state = CONNECTION_ACTIVE
       /\ \A c \in Conns :
            (hb_task[c] = "sleep" /\ hb_task'[c] # "sleep"
             /\ connection_state = CONNECTION_CLOSED /\ hb_task'[c] # "aborted")
                => hb_task'[c] = "finished"]_vars

\* C12: at most one reader task and at most one heartbeat task are running,
\* whatever deadlines shutdown or reconnect have hit.
C12_AtMostOneReaderAndHeartbeat ==
    /\ Cardinality({c \in Conns : TaskLive(read_task[c])}) <= 1
    /\ Cardinality({c \in Conns : TaskLive(hb_task[c])}) <= 1

\* C13: whenever the state is ACTIVE, the inner session's current reader task
\* is not finished and its current writer has not been shut down.
C13_ActiveMeansReaderAndWriterUp ==
    connection_state = CONNECTION_ACTIVE
        => (~IsFinished(read_task[inner_read_task]) /\ ~wshut[inner_writer])

\* C13 (amended): whenever is_active() holds, the client has neither shut the
\* current writer down nor aborted the current reader task; the reader may
\* have ended by itself (end of stream or read error) with the state still
\* ACTIVE until the controller's next tick.
C13_ActiveMeansNotTornDown ==
    is_active => (~wshut[inner_writer] /\ read_task[inner_read_task] \notin {"aborted", "handler_ab"})

C13_Witness ==
    is_active /\ inner_read_task = 2 /\ read_task[inner_read_task] = "finished"

\* C14: whenever the state is CLOSED no reader or heartbeat task is running,
\* and no step taken in CLOSED spawns one.
C14_ClosedMeansNoTasks ==
    /\ [](is_closed => \A c \in Conns : ~TaskLive(read_task[c]) /\ ~TaskLive(hb_task[c]))
    /\ [][is_closed => \A c \in Conns : /\ read_task[c] = "none" => read_task'[c] = "none"
                                        /\ hb_task[c] = "none" => hb_task'[c] = "none"]_vars

\* C14 (amended): once the state is CLOSED and the controller task has finished
\* (its inner session dropped), every reader task has finished or has been
\* aborted (one aborted inside a handler call stops when the call returns)
\* and the heartbeat whose handle the session still held is not running; no
\* step taken in CLOSED spawns a reader or a heartbeat.
C14_ClosedAndDroppedMeansNoTasks ==
    /\ []((is_closed /\ CtrlFinished)
            => \A c \in Conns : read_task[c] \in {"none", "finished", "aborted", "handler_ab"})
    /\ [][(is_closed' /\ CtrlFinished' /\ ~CtrlFinished /\ inner_heartbeat_task # 0)
            => ~TaskLive(hb_task'[inner_heartbeat_task])]_vars
    /\ [][is_closed => \A c \in Conns : /\ read_task[c] = "none" => read_task'[c] = "none"
                                        /\ hb_task[c] = "none" => hb_task'[c] = "none"]_vars

C14_Witness ==
    is_closed /\ CtrlFinished /\ nconn = 2 /\ read_task[2] = "aborted" /\ hb_task[2] = "aborted"

\* C15: the controller task alone stores CLOSED, once, as its last action
\* after its loop; whenever the state is CLOSED the controller's loop has
\* been left for good.
C15_ControllerAloneStoresClosed ==
    /\ [][(connection_state' = CONNECTION_CLOSED /\ connection_state # CONNECTION_CLOSED)
            => (ctrl_pc = "exit" /\ ctrl_pc' = "drop")]_vars
    /\ [](is_closed => ctrl_pc \in {"drop", "done", "aborted"})
    /\ [][(ctrl_pc \in {"drop", "done", "aborted"})
            => (ctrl_pc' \in {"drop", "done", "aborted"} /\ connection_state' = connection_state)]_vars

C15_Witness ==
    is_closed /\ ctrl_pc = "drop" /\ close_pc = "wait"

\* C16: after close() has returned, by its poll or by its 5 s deadline, the
\* controller task is not running: close() has aborted it if it had not
\* finished.
C16_CloseNeverLeavesControllerRunning ==
    close_pc \in {"returned", "timedout"} => CtrlFinished

\* C17: when the initial transport open fails, connect returns the error: no
\* client is handed out, no reader, heartbeat or controller task is spawned,
\* no reconnect is attempted and post_connection is not invoked.
C17_FailedOpenSpawnsNothing ==
    connect_pc = "failed"
        => /\ send_pc = "noclient" /\ close_pc = "noclient"
           /\ ctrl_pc = "unspawned"
           /\ \A c \in Conns : read_task[c] = "none" /\ hb_task[c] = "none"
           /\ nconn = 0 /\ retry_counter = 0
           /\ n_post_connection = 0 /\ n_post_reconnection = 0

C17_Witness ==
    connect_pc = "failed" /\ max_reconnection_tries = SomeTries(2)

\* s ends with suf.
EndsWith(s, suf) == Len(s) >= Len(suf) /\ SubSeq(s, Len(s) - Len(suf) + 1, Len(s)) = suf

\* suf occurs in s.
Contains(s, suf) == \E i \in 1..Len(s) : i + Len(suf) - 1 <= Len(s) /\ SubSeq(s, i, i + Len(suf) - 1) = suf

\* p is a prefix of s.
IsPrefix(p, s) == Len(p) <= Len(s) /\ SubSeq(s, 1, Len(p)) = p

\* The reference split of s at successive earliest occurrences of suf, read
\* one byte at a time: cur is the part since the last cut, out the frames cut
\* so far; a frame is cut as soon as cur ends with suf.
RECURSIVE RefSplit(_, _, _, _)
RefSplit(s, suf, cur, out) ==
    IF s = <<>> THEN [frames |-> out, rest |-> cur]
    ELSE LET cur2 == Append(cur, Head(s))
         IN IF EndsWith(cur2, suf)
            THEN RefSplit(Tail(s), suf, <<>>, Append(out, SubSeq(cur2, 1, Len(cur2) - Len(suf))))
            ELSE RefSplit(Tail(s), suf, cur2, out)

\* C18: for every inbound stream, non-empty suffix and chunking of the stream
\* into reads, with a handler that never fails, the handler's arguments are,
\* in order, the frames of the reference split of the bytes read so far at
\* successive earliest occurrences of the suffix: all of them once the scan
\* of a read is over, the trailing part without suffix kept in the buffer
\* and not delivered; no delivered frame contains the suffix.
C18_FramesAreReferenceSplit ==
    ~fr_handler_fails =>
        LET ref == RefSplit(SubSeq(fr_stream, 1, fr_pos), fr_suffix, <<>>, <<>>)
        IN /\ IsPrefix(fr_calls, ref.frames)
           /\ fr_pc \in {"read", "done"} => (fr_calls = ref.frames /\ fr_buf = ref.rest)
           /\ \A j \in 1..Len(fr_calls) : ~Contains(fr_calls[j], fr_suffix)

C18_Witness ==
    /\ fr_pc = "done" /\ ~fr_handler_fails
    /\ Len(fr_calls) = 2 /\ fr_calls[1] # <<>> /\ fr_calls[2] = <<>> /\ fr_buf # <<>>

\* C19: at most one reader task is inside the handler call at any time, across
\* reconnects too, whether shutdown aborted the old reader or its deadline
\* left it alone.
C19_HandlerNeverConcurrent ==
    Cardinality({c \in Conns : read_task[c] \in {"handler", "handler_ab"}}) <= 1

C19_Witness ==
    nconn = 2 /\ read_task[2] = "handler" /\ read_task[1] = "finished"

\* C20: a handler error does not end the reader task (only an abort by the
\* client stops it afterwards) and the step changes neither the state, the
\* flag nor the controller; no reconnect starts while the reader that saw the
\* error is the current one, is_active() stays true until close() is called,
\* and once close() is called the state becomes CLOSED unless the peer ends
\* the stream first.
C20_HandlerErrorKeepsReader ==
    /\ [][\A c \in Conns : read_task[c] = "handler_failed"
            => read_task'[c] \in {"handler_failed", "running", "handler_ab"}]_vars
    /\ [][(\E c \in Conns : read_task[c] = "handler" /\ read_task'[c] = "handler_failed")
            => UNCHANGED <<connection_state, disconnect_mode, ctrl_vars, inner_vars>>]_vars
    /\ [][(read_task[inner_read_task] = "handler_failed" /\ is_active)
            => (is_active' \/ disconnect_mode')]_vars
    /\ (read_task[inner_read_task] = "handler_failed" /\ disconnect_mode)
          ~> (is_closed \/ read_task[inner_read_task] = "finished")

C20_Witness ==
    is_active /\ nconn = 1 /\ read_task[inner_read_task] = "handler_failed"

\* C22: post_reconnection is called once for each successful reconnect, after
\* ACTIVE was stored, and in no other step (so not for an attempt that failed
\* or hit its deadline); the step that calls it resets the retry counter to 0.
\* The successful reconnects so far are the connections opened after the
\* first one.
C22_PostReconnectionOncePerSuccess ==
    /\ [][n_post_reconnection' # n_post_reconnection
            => /\ ctrl_pc = "rc_ok" /\ connection_state = CONNECTION_ACTIVE
               /\ n_post_reconnection' = n_post_reconnection + 1
               /\ retry_counter' = 0]_vars
    /\ [](n_post_reconnection =
            IF ctrl_pc \in {"rc_unlock", "rc_active", "rc_ok"} THEN nconn - 2 ELSE nconn - 1)

C22_Witness ==
    n_post_reconnection = 1 /\ ctrl_pc = "tick" /\ is_active /\ retry_counter = 0

\* C23: whenever CLOSED is stored with the disconnect flag set,
\* post_disconnection has been called exactly once, after shutdown returned
\* and before the store; it is never called with the flag unset.
C23_PostDisconnectionOnClose ==
    /\ [][(connection_state' = CONNECTION_CLOSED /\ connection_state # CONNECTION_CLOSED
            /\ disconnect_mode) => n_post_disconnection = 1]_vars
    /\ [][n_post_disconnection' # n_post_disconnection
            => /\ disconnect_mode /\ ctrl_call = "close" /\ ctrl_pc = "post_disc"
               /\ n_post_disconnection' = n_post_disconnection + 1
               /\ ~is_closed]_vars

\* C24: a reconnect attempt that fails or hits its deadline returns its error
\* with the state RECONNECTING and the reconnection mutex released; from a
\* failure until the next success is reported or the controller exits,
\* is_active() is false; the mutex is free whenever the controller is at its
\* tick, so nothing of a failed attempt blocks the next one.
C24_FailedReconnectLeavesReconnecting ==
    /\ ctrl_pc = "rc_err" => (connection_state = CONNECTION_RECONNECTING /\ ~reconnection_lock)
    /\ ((ctrl_pc = "rc_err" \/ retry_counter > 0) /\ ctrl_pc # "rc_ok") => ~is_active
    /\ ctrl_pc \in {"tick", "match"} => ~reconnection_lock

\* A later attempt has succeeded after a failed one.
C24_Witness ==
    ctrl_pc = "rc_ok" /\ retry_counter > 0 /\ connection_state = CONNECTION_ACTIVE

\* C26: shutdown shuts the writer down while nobody else holds the writer
\* mutex, and only then, after the grace period, aborts; its abort step
\* leaves finished tasks as they are and leaves the reader and the heartbeat
\* passed to it finished or aborted; from its entry on the session holds no
\* heartbeat handle.
C26_ShutdownOrder ==
    /\ [][wshut' # wshut => (ctrl_pc = "sd_lock" /\ wlock[inner_writer] = "free"
                              /\ UNCHANGED <<read_task, hb_task>>)]_vars
    /\ [](ctrl_pc = "sd_sleep" => wshut[inner_writer])
    /\ [](ctrl_pc \in {"sd_lock", "sd_sleep"} => inner_heartbeat_task = 0)
    /\ [][SdAbort
            => /\ read_task'[inner_read_task] \in {"finished", "aborted", "handler_ab"}
               /\ (sd_hb # 0) => (hb_task'[sd_hb] \in {"finished", "aborted"})
               /\ \A c \in Conns : /\ (read_task[c] = "finished") => (read_task'[c] = "finished")
                                   /\ (hb_task[c] = "finished") => (hb_task'[c] = "finished")
               /\ inner_heartbeat_task' = 0 /\ sd_hb' = 0]_vars

\* shutdown has returned in the (true, true) arm having aborted both tasks.
C26_Witness ==
    /\ ctrl_pc = "post_disc" /\ wshut[inner_writer]
    /\ read_task[inner_read_task] = "aborted" /\ hb_task[inner_read_task] = "aborted"

\* C27: the disconnect flag, once set, stays set; once the controller has
\* loaded it as set at a tick, every later tick loads it as set, the
\* controller is never inside a reconnect attempt again, no connection is
\* opened and no reader or heartbeat task is spawned.
C27_NoReconnectAfterDisconnectSeen ==
    /\ [][disconnect_mode => disconnect_mode']_vars
    /\ [][ctrl_disconnect
            => /\ ctrl_disconnect'
               /\ nconn' = nconn
               /\ ctrl_pc' \notin {"rc_connect", "rc_unlock", "rc_active", "rc_ok", "rc_err"}
               /\ (connection_state' # connection_state)
                    => (connection_state' = CONNECTION_CLOSED)
               /\ \A c \in Conns : /\ (read_task[c] = "none") => (read_task'[c] = "none")
                                   /\ (hb_task[c] = "none") => (hb_task'[c] = "none")]_vars

\* A reconnect that was in progress when close() was called has completed
\* and the next tick has observed the flag and entered shutdown.
C27_Witness ==
    ctrl_disconnect /\ ctrl_call = "close" /\ nconn = 2 /\ n_post_reconnection = 1

\* C28: the reconnection mutex is taken no later than the store of
\* RECONNECTING and is still held at the store of ACTIVE that ends a
\* successful attempt; it is held only by the one attempt in progress.
C28_MutexHeldUntilActive ==
    /\ [][(connection_state' = CONNECTION_RECONNECTING
            /\ connection_state # CONNECTION_RECONNECTING) => reconnection_lock']_vars
    /\ [][(connection_state = CONNECTION_RECONNECTING
            /\ connection_state' = CONNECTION_ACTIVE) => reconnection_lock]_vars
    /\ [](reconnection_lock
            => (ctrl_call = "reconnect" /\ ctrl_pc \in {"sd_lock", "sd_sleep", "rc_connect", "rc_unlock"}))

\* C25: whenever the reader is back at read_buf its buffer holds no
\* occurrence of the suffix, a handler failure in the batch included: every
\* complete frame received has been passed to the handler.
C25_NoSuffixLeftWhenReading ==
    fr_pc \in {"read", "done"} => ~Contains(fr_buf, fr_suffix)

\* C21: on one connection every payload written by send_bytes is immediately
\* followed on the wire by that call's suffix (the last payload may still
\* await its suffix while its call holds the mutex, or stay without one when
\* the transport failed), every suffix immediately follows its payload, each
\* write is made by the holder of the writer mutex, which a send_bytes call
\* holds from before its payload until after its suffix, and a call that
\* returns Ok has just written payload then suffix.
C21_PayloadThenSuffix ==
    /\ [](\A i \in 1..Len(wr_wire) :
            /\ (wr_wire[i].kind = "payload" /\ i < Len(wr_wire))
                  => (wr_wire[i + 1] = Suffix(wr_wire[i].by))
            /\ (wr_wire[i].kind = "payload" /\ i = Len(wr_wire))
                  => (wr_shut \/ (wr_holder = wr_wire[i].by /\ wr_pc[wr_holder] = "write_suffix"))
            /\ (wr_wire[i].kind = "suffix")
                  => (i > 1 /\ wr_wire[i - 1] = Payload(wr_wire[i].by)))
    /\ [](\A s \in Senders : (wr_pc[s] \in {"write_data", "write_suffix"}) <=> (wr_holder = s))
    /\ [][wr_wire' # wr_wire
            => (wr_holder # 0 /\ wr_wire' = Append(wr_wire, wr_wire'[Len(wr_wire')])
                /\ wr_wire'[Len(wr_wire')].by = wr_holder)]_vars
    /\ [][\A s \in Senders : (wr_pc'[s] = "ok" /\ wr_pc[s] # "ok")
            => (Len(wr_wire') >= 2
                /\ SubSeq(wr_wire', Len(wr_wire') - 1, Len(wr_wire')) = <<Payload(s), Suffix(s)>>)]_vars

\* A send_bytes call has returned Ok with a heartbeat and another call's
\* message on the wire before its own.
C21_Witness ==
    /\ wr_pc[2] = "ok" /\ Len(wr_wire) = MaxWire
    /\ \E i \in 1..Len(wr_wire) : wr_wire[i] = HeartbeatMsg
    /\ wr_wire[Len(wr_wire)] = Suffix(2)
====
